---- MODULE Spec2Model ----
(***************************************************************************)
(* A model of the realtime NPC relay server (app/server.py) and of the     *)
(* RAG index accessor (app/rag/rag_utils.py).                              *)
(*                                                                         *)
(* Scheduling: one asyncio event loop.  A task runs from the await it is   *)
(* suspended at to the next await; every action below is one such run.     *)
(* The pc of a task names the await it is suspended at.  A socket send or  *)
(* close takes effect when it is called (the frame is handed to the        *)
(* transport), the task is then suspended until the call returns.          *)
(***************************************************************************)
EXTENDS Integers, Sequences, FiniteSets, TLC

\* ------------------------------------------------------------------ universe
Conns == {"c1", "c2"}        \* invocations of websocket_endpoint; a connection's
                             \* socket, the session and the lifecycle context its
                             \* connect creates all carry the connection's name
Observers == {"o1", "o2"}    \* invocations of websocket_events (and their sockets)
Keys == {"k1", "k2"}             \* session_id path parameters
None == "None"
Sockets == Conns \cup Observers

MaxEvents == 2               \* events a hosted session emits
MaxChunks == 2               \* chunks buffered per image id

\* ------------------------------------------------------------------ state
VARIABLES
    active_sessions,   \* dict session_id -> RealtimeSession
    session_contexts,  \* dict session_id -> lifecycle context
    websockets,        \* dict session_id -> owning WebSocket
    listeners,         \* dict session_id -> set object (named by the observer whose add_listener created it)
    setObj,            \* the contents of every set object
    pc,                \* position of every websocket_endpoint task
    connKey,           \* session_id of every websocket_endpoint task
    dTodo,             \* disconnect: observers of the snapshot still to close
    image_buffers,     \* per connection: dict id -> [text, chunks]
    cur,               \* per connection: the inbound message being (last) handled
    pend,              \* per connection: reply to send once the hosted-session call returns
    replies,           \* per connection: replies sent in response to cur
    fwd,               \* per connection: hosted-session calls made in response to cur
    opc,               \* position of every websocket_events task
    obsKey,            \* session_id of every websocket_events task
    regOrder,          \* observers in the order add_listener registered them
    rpc,               \* position of every _process_events task (one per connect)
    rSess,             \* _process_events local: session
    rSock,             \* _process_events local: websocket
    rEv,               \* _process_events local: event_data being sent
    rSet,              \* _process_events local: listeners (a set object, None: a fresh set())
    rTodo,             \* _process_events: observers of list(listeners) still to send to
    rCur,              \* _process_events local: ws
    rOk,               \* _process_events: FALSE when the pending send raises
    entered,           \* contexts whose __aenter__ returned
    ctxExits,          \* per context: number of __aexit__ calls
    emitted,           \* per session: number of events emitted so far
    queue,             \* per session: emitted events not yet taken by an iterator
    evLog,             \* per socket: relayed payloads handed to the socket, in order
    gone,              \* sockets whose client has gone away
    closed,            \* sockets on which the server has called close()
    index,             \* rag_utils._index: NoIndex (None) or a handle
    collection,        \* whether the vector store holds the collection
    builds,            \* number of times the build body of get_index was entered
    creates,           \* number of create_collection calls that succeeded
    calls,             \* number of get_index calls made
    cpc,               \* position of every caller of get_index
    cseen,             \* per caller: the handles calls had returned when its last call began
    cbuilt,            \* per caller: the number of the build its current (last) call ran, 0: none
    ret,               \* per caller: what its last call returned (NoIndex: nothing, or it raised)
    TIMEZONE,          \* agent.TIMEZONE, read from the environment at import
    clockH,            \* the system clock: whole hours of UTC since the first of the month
    clockM,            \* the system clock: minutes of the hour
    tool,              \* what the last call of a clock or date tool returned
    docs,              \* the texts of the documents handed to the paragraph splitter
    nodes              \* the texts of the nodes the splitter returned, None before the call

regVars == <<active_sessions, session_contexts, websockets, listeners, setObj>>
connVars == <<pc, connKey, dTodo>>
msgVars == <<image_buffers, cur, pend, replies, fwd>>
obsVars == <<opc, obsKey, regOrder>>
relayVars == <<rpc, rSess, rSock, rEv, rSet, rTodo, rCur, rOk>>
sessVars == <<entered, ctxExits, emitted, queue>>
sockVars == <<evLog, gone, closed>>
rag == <<index, collection, builds, creates, calls, cpc, cseen, cbuilt, ret>>
tools == <<TIMEZONE, clockH, clockM, tool>>
parser == <<docs, nodes>>
vars == <<regVars, connVars, msgVars, obsVars, relayVars, sessVars, sockVars, rag, tools, parser>>

\* ------------------------------------------------------------------ dicts
EmptyDict == [x \in {} |-> None]
DictSet(d, k, v) == [x \in (DOMAIN d) \cup {k} |-> IF x = k THEN v ELSE d[x]]
DictDel(d, k) == [x \in (DOMAIN d) \ {k} |-> d[x]]
DictGet(d, k) == IF k \in DOMAIN d THEN d[k] ELSE None

\* list(a_set): the elements in the set's iteration order, which for sockets
\* (hashed by address) is any order
ListOf(S) == {q \in [1..Cardinality(S) -> S] : \A i, j \in 1..Cardinality(S) : i # j => q[i] # q[j]}

NoMsg == [type |-> None]
NoReply == [type |-> None]
NoEvent == [type |-> None]

Callers == {"t1", "t2"}      \* threads of control that call get_index
NoIndex == 0
MaxCalls == 3                \* calls of get_index

InitServer ==
    /\ active_sessions = EmptyDict
    /\ session_contexts = EmptyDict
    /\ websockets = EmptyDict
    /\ listeners = EmptyDict
    /\ setObj = [o \in Observers |-> {}]
    /\ pc = [c \in Conns |-> "idle"]
    /\ connKey = [c \in Conns |-> None]
    /\ dTodo = [c \in Conns |-> <<>>]
    /\ image_buffers = [c \in Conns |-> EmptyDict]
    /\ cur = [c \in Conns |-> NoMsg]
    /\ pend = [c \in Conns |-> NoReply]
    /\ replies = [c \in Conns |-> <<>>]
    /\ fwd = [c \in Conns |-> <<>>]
    /\ opc = [o \in Observers |-> "idle"]
    /\ obsKey = [o \in Observers |-> None]
    /\ regOrder = <<>>
    /\ rpc = [c \in Conns |-> "none"]
    /\ rSess = [c \in Conns |-> None]
    /\ rSock = [c \in Conns |-> None]
    /\ rEv = [c \in Conns |-> NoEvent]
    /\ rSet = [c \in Conns |-> None]
    /\ rTodo = [c \in Conns |-> <<>>]
    /\ rCur = [c \in Conns |-> None]
    /\ rOk = [c \in Conns |-> TRUE]
    /\ entered = {}
    /\ ctxExits = [c \in Conns |-> 0]
    /\ emitted = [c \in Conns |-> 0]
    /\ queue = [c \in Conns |-> <<>>]
    /\ evLog = [s \in Sockets |-> <<>>]
    /\ gone = {}
    /\ closed = {}

InitRag ==
    /\ index = NoIndex
    /\ builds = 0
    /\ creates = 0
    /\ calls = 0
    /\ cpc = [t \in Callers |-> "idle"]
    /\ cseen = [t \in Callers |-> {}]
    /\ cbuilt = [t \in Callers |-> 0]
    /\ ret = [t \in Callers |-> NoIndex]

\* the tools: TIMEZONE has its default, no tool has been called
InitTools ==
    /\ TIMEZONE = "Atlantic/Canary"
    /\ clockH = 0
    /\ clockM = 0
    /\ tool = [tool |-> None]

InitParser ==
    /\ docs = <<>>
    /\ nodes = None

Init == InitServer /\ InitRag /\ InitTools /\ InitParser /\ collection = FALSE

\* ------------------------------------------------------------------ connect
\* websocket_endpoint starts: manager.connect calls websocket.accept()
ConnectAccept(c, k) ==
    /\ pc[c] = "idle"
    /\ pc' = [pc EXCEPT ![c] = "c_accept"]
    /\ connKey' = [connKey EXCEPT ![c] = k]
    /\ UNCHANGED <<regVars, dTodo, msgVars, obsVars, relayVars, sessVars, sockVars, rag, tools, parser>>

\* accept returned: the socket is recorded, runner.run and __aenter__ are awaited
ConnectRecord(c) ==
    /\ pc[c] = "c_accept"
    /\ websockets' = DictSet(websockets, connKey[c], c)
    /\ pc' = [pc EXCEPT ![c] = "c_enter"]
    /\ UNCHANGED <<active_sessions, session_contexts, listeners, setObj, connKey, dTodo,
                   msgVars, obsVars, relayVars, sessVars, sockVars, rag, tools, parser>>

\* __aenter__ returned: session and context are recorded, the relay task is
\* created, the endpoint makes its image_buffers and awaits receive_text
ConnectEntered(c) ==
    /\ pc[c] = "c_enter"
    /\ entered' = entered \cup {c}
    /\ active_sessions' = DictSet(active_sessions, connKey[c], c)
    /\ session_contexts' = DictSet(session_contexts, connKey[c], c)
    /\ rpc' = [rpc EXCEPT ![c] = "start"]
    /\ image_buffers' = [image_buffers EXCEPT ![c] = EmptyDict]
    /\ pc' = [pc EXCEPT ![c] = "recv"]
    /\ UNCHANGED <<websockets, listeners, setObj, connKey, dTodo, cur, pend, replies, fwd,
                   obsVars, rSess, rSock, rEv, rSet, rTodo, rCur, rOk,
                   ctxExits, emitted, queue, sockVars, rag, tools, parser>>

\* ------------------------------------------------------------------ clients
\* the client of a connected socket goes away: its receive_text will raise
\* WebSocketDisconnect, and a send to it raises
ClientGone(s) ==
    /\ s \notin gone
    /\ \/ s \in Conns /\ pc[s] \in {"recv", "fwd"}
       \/ s \in Observers /\ opc[s] = "o_recv"
    /\ gone' = gone \cup {s}
    /\ UNCHANGED <<regVars, connVars, msgVars, obsVars, relayVars, sessVars, evLog, closed, rag, tools, parser>>

\* ------------------------------------------------------------------ disconnect
\* disconnect from "if session_id in self.active_sessions" on: the entries of
\* the key are deleted and the first observer of list(listeners) is closed
DisconnectTail(c, sc) ==
    LET k == connKey[c] IN
    /\ session_contexts' = sc
    /\ active_sessions' = DictDel(active_sessions, k)
    /\ websockets' = DictDel(websockets, k)
    /\ IF k \in DOMAIN listeners /\ setObj[listeners[k]] # {}
       THEN \E q \in ListOf(setObj[listeners[k]]) :
               /\ closed' = closed \cup {q[1]}
               /\ dTodo' = [dTodo EXCEPT ![c] = Tail(q)]
               /\ pc' = [pc EXCEPT ![c] = "d_close"]
               /\ UNCHANGED listeners
       ELSE /\ listeners' = DictDel(listeners, k)
            /\ pc' = [pc EXCEPT ![c] = "done"]
            /\ UNCHANGED <<closed, dTodo>>

\* receive_text (or a reply's send_text) raises WebSocketDisconnect and the
\* handler calls manager.disconnect: the context's __aexit__ is called
DisconnectBegin(c) ==
    /\ \/ pc[c] = "recv" /\ c \in gone
       \/ pc[c] = "wsd"
    /\ IF connKey[c] \in DOMAIN session_contexts
       THEN /\ ctxExits' = [ctxExits EXCEPT ![session_contexts[connKey[c]]] = @ + 1]
            /\ pc' = [pc EXCEPT ![c] = "d_exit"]
            /\ UNCHANGED <<regVars, dTodo, closed>>
       ELSE /\ DisconnectTail(c, session_contexts)
            /\ UNCHANGED <<setObj, ctxExits>>
    /\ UNCHANGED <<connKey, msgVars, obsVars, relayVars, entered, emitted, queue, evLog, gone, rag, tools, parser>>

\* __aexit__ returned: del self.session_contexts[session_id] (KeyError when
\* another disconnect has deleted it meanwhile), then the rest of disconnect
DisconnectExited(c) ==
    /\ pc[c] = "d_exit"
    /\ IF connKey[c] \in DOMAIN session_contexts
       THEN DisconnectTail(c, DictDel(session_contexts, connKey[c]))
       ELSE /\ pc' = [pc EXCEPT ![c] = "crashed"]
            /\ UNCHANGED <<session_contexts, active_sessions, websockets, listeners, closed, dTodo>>
    /\ UNCHANGED <<setObj, connKey, msgVars, obsVars, relayVars, sessVars, evLog, gone, rag, tools, parser>>

\* a close() of the observer loop returned: the next observer is closed, or
\* del self.listeners[session_id] (KeyError when it has been deleted meanwhile)
DisconnectClose(c) ==
    /\ pc[c] = "d_close"
    /\ IF dTodo[c] # <<>>
       THEN /\ closed' = closed \cup {Head(dTodo[c])}
            /\ dTodo' = [dTodo EXCEPT ![c] = Tail(@)]
            /\ UNCHANGED <<pc, listeners>>
       ELSE /\ IF connKey[c] \in DOMAIN listeners
               THEN /\ listeners' = DictDel(listeners, connKey[c])
                    /\ pc' = [pc EXCEPT ![c] = "done"]
               ELSE /\ pc' = [pc EXCEPT ![c] = "crashed"]
                    /\ UNCHANGED listeners
            /\ UNCHANGED <<closed, dTodo>>
    /\ UNCHANGED <<active_sessions, session_contexts, websockets, setObj, connKey, msgVars,
                   obsVars, relayVars, sessVars, evLog, gone, rag, tools, parser>>

\* ------------------------------------------------------------------ ingress
\* Strings that are concatenated (image data) are sequences of characters;
\* a missing or empty text is "", a missing or empty data_url is <<>>.
Texts == {"", "t"}
DataUrls == {<<>>, <<"d">>}
ImgIds == {"a", "b"}
Chunks == {<<"x">>, <<"y">>}
ChunkAckEvery == 10
DefaultPrompt == "Please describe this image."

Msg(type, id, text, data) == [type |-> type, id |-> id, text |-> text, data |-> data]
Messages ==
    {Msg("audio", None, "", d) : d \in {<<"ok">>, <<"bad">>}}
    \cup {Msg("text", None, t, <<>>) : t \in Texts}
    \cup {Msg("image", None, "", d) : d \in DataUrls}
    \cup {Msg(ty, None, "", <<>>) : ty \in {"commit_audio", "interrupt", "ping"}}
    \cup {Msg("image_start", i, "", <<>>) : i \in ImgIds}
    \cup {Msg("image_chunk", i, "", ch) : i \in ImgIds, ch \in Chunks}
    \cup {Msg("image_end", i, "", <<>>) : i \in ImgIds}
    \cup {Msg(ty, None, "", <<>>) : ty \in {"#invalid_json", "#no_type"}}

Ack(info, id, n) == [type |-> "client_info", info |-> info, id |-> id, n |-> n]
Err(e) == [type |-> "error", info |-> e, id |-> None, n |-> 0]

RECURSIVE Join(_)
\* "".join(chunks)
Join(chunks) == IF chunks = <<>> THEN <<>> ELSE Head(chunks) \o Join(Tail(chunks))

\* the user message of an image: input_image plus input_text
ImageMessage(data_url, prompt_text) == [image_url |-> data_url, text |-> prompt_text]

Outcome(exc, op, payload, reply, bufs) ==
    [exc |-> exc, op |-> op, payload |-> payload, reply |-> reply, bufs |-> bufs]

\* an image_start that opens the buffer and sends no ack
OnImageStartSilent(m, bufs) ==
    Outcome(FALSE, None, <<>>, NoReply,
            DictSet(bufs, m.id, [text |-> IF m.text # "" THEN m.text ELSE DefaultPrompt,
                                 chunks |-> <<>>]))

\* an image_start that keeps the buffer of an id already started
OnImageStartKeeping(m, bufs) ==
    Outcome(FALSE, None, <<>>, Ack("image_start_ack", m.id, 0),
            IF m.id \in DOMAIN bufs THEN bufs
            ELSE DictSet(bufs, m.id, [text |-> IF m.text # "" THEN m.text ELSE DefaultPrompt,
                                      chunks |-> <<>>]))

\* image_start: a fresh buffer under the id, and the ack
OnImageStart(m, bufs) ==
    Outcome(FALSE, None, <<>>, Ack("image_start_ack", m.id, 0),
            DictSet(bufs, m.id, [text |-> IF m.text # "" THEN m.text ELSE DefaultPrompt,
                                 chunks |-> <<>>]))

\* an image_chunk that puts the chunk in front of the buffered ones
OnImageChunkPrepending(m, bufs) ==
    IF m.id \in DOMAIN bufs
    THEN LET chunks == <<m.data>> \o bufs[m.id].chunks IN
         Outcome(FALSE, None, <<>>,
                 IF Len(chunks) % ChunkAckEvery = 0
                 THEN Ack("image_chunk_ack", m.id, Len(chunks)) ELSE NoReply,
                 DictSet(bufs, m.id, [bufs[m.id] EXCEPT !.chunks = chunks]))
    ELSE Outcome(FALSE, None, <<>>, NoReply, bufs)

\* an image_chunk that acknowledges every chunk
OnImageChunkAckingAll(m, bufs) ==
    IF m.id \in DOMAIN bufs
    THEN LET chunks == Append(bufs[m.id].chunks, m.data) IN
         Outcome(FALSE, None, <<>>, Ack("image_chunk_ack", m.id, Len(chunks)),
                 DictSet(bufs, m.id, [bufs[m.id] EXCEPT !.chunks = chunks]))
    ELSE Outcome(FALSE, None, <<>>, NoReply, bufs)

\* image_chunk: appended to an open buffer, acknowledged every tenth chunk
OnImageChunk(m, bufs) ==
    IF m.id \in DOMAIN bufs
    THEN LET chunks == Append(bufs[m.id].chunks, m.data) IN
         Outcome(FALSE, None, <<>>,
                 IF Len(chunks) % ChunkAckEvery = 0
                 THEN Ack("image_chunk_ack", m.id, Len(chunks)) ELSE NoReply,
                 DictSet(bufs, m.id, [bufs[m.id] EXCEPT !.chunks = chunks]))
    ELSE Outcome(FALSE, None, <<>>, NoReply, bufs)

\* an image_end whose pop has no default: an unknown id raises KeyError
OnImageEndRaising(m, bufs) ==
    IF m.id \notin DOMAIN bufs
    THEN Outcome(TRUE, None, <<>>, NoReply, bufs)
    ELSE LET data_url == Join(bufs[m.id].chunks) IN
         IF data_url # <<>>
         THEN Outcome(FALSE, "send_message", ImageMessage(data_url, bufs[m.id].text),
                      Ack("image_enqueued", m.id, Len(data_url)), DictDel(bufs, m.id))
         ELSE Outcome(FALSE, None, <<>>, Err("Empty image."), DictDel(bufs, m.id))

\* an image_end that forwards the image without looking at its data
OnImageEndForwardingEmpty(m, bufs) ==
    IF m.id \notin DOMAIN bufs
    THEN Outcome(FALSE, None, <<>>, Err("Unknown image id for image_end."), bufs)
    ELSE LET data_url == Join(bufs[m.id].chunks) IN
         Outcome(FALSE, "send_message", ImageMessage(data_url, bufs[m.id].text),
                 Ack("image_enqueued", m.id, Len(data_url)), DictDel(bufs, m.id))

\* image_end: the buffer is popped; unknown id and empty image are errors
OnImageEnd(m, bufs) ==
    IF m.id \notin DOMAIN bufs
    THEN Outcome(FALSE, None, <<>>, Err("Unknown image id for image_end."), bufs)
    ELSE LET data_url == Join(bufs[m.id].chunks) IN
         IF data_url # <<>>
         THEN Outcome(FALSE, "send_message", ImageMessage(data_url, bufs[m.id].text),
                      Ack("image_enqueued", m.id, Len(data_url)), DictDel(bufs, m.id))
         ELSE Outcome(FALSE, None, <<>>, Err("Empty image."), DictDel(bufs, m.id))

\* a receive loop whose interrupt branch calls send_client_event
DispatchMisrouting(m, bufs) ==
    CASE m.type \in {"#invalid_json", "#no_type"} -> Outcome(TRUE, None, <<>>, NoReply, bufs)
      [] m.type = "audio" ->
            IF m.data = <<"bad">> THEN Outcome(TRUE, None, <<>>, NoReply, bufs)
            ELSE Outcome(FALSE, "send_audio", m.data, NoReply, bufs)
      [] m.type = "text" ->
            IF m.text # ""
            THEN Outcome(FALSE, "send_message", [image_url |-> <<>>, text |-> m.text],
                         Ack("text_enqueued", None, 0), bufs)
            ELSE Outcome(FALSE, None, <<>>, Err("Empty text message."), bufs)
      [] m.type = "image" ->
            IF m.data # <<>>
            THEN Outcome(FALSE, "send_message",
                         ImageMessage(m.data, IF m.text # "" THEN m.text ELSE DefaultPrompt),
                         Ack("image_enqueued", None, Len(m.data)), bufs)
            ELSE Outcome(FALSE, None, <<>>, Err("No data_url for image message."), bufs)
      [] m.type = "commit_audio" ->
            Outcome(FALSE, "send_event", <<"input_audio_buffer.commit">>, NoReply, bufs)
      [] m.type = "image_start" -> OnImageStart(m, bufs)
      [] m.type = "image_chunk" -> OnImageChunk(m, bufs)
      [] m.type = "image_end" -> OnImageEnd(m, bufs)
      [] m.type = "interrupt" -> Outcome(FALSE, "send_event", <<>>, NoReply, bufs)
      [] OTHER -> Outcome(FALSE, None, <<>>, NoReply, bufs)

\* the body of the receive loop for one message: what is forwarded through
\* the manager (op, payload), the reply sent after it, the new image_buffers;
\* exc when json.loads, message["type"] or struct.pack raises
Dispatch(m, bufs) ==
    CASE m.type \in {"#invalid_json", "#no_type"} -> Outcome(TRUE, None, <<>>, NoReply, bufs)
      [] m.type = "audio" ->
            IF m.data = <<"bad">> THEN Outcome(TRUE, None, <<>>, NoReply, bufs)
            ELSE Outcome(FALSE, "send_audio", m.data, NoReply, bufs)
      [] m.type = "text" ->
            IF m.text # ""
            THEN Outcome(FALSE, "send_message", [image_url |-> <<>>, text |-> m.text],
                         Ack("text_enqueued", None, 0), bufs)
            ELSE Outcome(FALSE, None, <<>>, Err("Empty text message."), bufs)
      [] m.type = "image" ->
            IF m.data # <<>>
            THEN Outcome(FALSE, "send_message",
                         ImageMessage(m.data, IF m.text # "" THEN m.text ELSE DefaultPrompt),
                         Ack("image_enqueued", None, Len(m.data)), bufs)
            ELSE Outcome(FALSE, None, <<>>, Err("No data_url for image message."), bufs)
      [] m.type = "commit_audio" ->
            Outcome(FALSE, "send_event", <<"input_audio_buffer.commit">>, NoReply, bufs)
      [] m.type = "image_start" -> OnImageStart(m, bufs)
      [] m.type = "image_chunk" -> OnImageChunk(m, bufs)
      [] m.type = "image_end" -> OnImageEnd(m, bufs)
      [] m.type = "interrupt" -> Outcome(FALSE, "interrupt", <<>>, NoReply, bufs)
      [] OTHER -> Outcome(FALSE, None, <<>>, NoReply, bufs)

\* the client sends no more than max chunks per image id
ChunkRoom(c, m, max) ==
    (m.type = "image_chunk" /\ m.id \in DOMAIN image_buffers[c])
        => Len(image_buffers[c][m.id].chunks) < max

\* send_text on a socket whose client is gone raises, WebSocketDisconnect
\* (the handler then disconnects) or another error (the handler ends)
AfterReply(c) == IF c \in gone THEN {"wsd", "crashed"} ELSE {"recv"}

\* receive_text returned message m: it is dispatched; a forward to a key with
\* a session suspends in the hosted-session call (send_audio, send_message,
\* model.send_event, interrupt), otherwise the reply is sent at once
Receive(c, m) ==
    /\ pc[c] = "recv"
    /\ LET d == Dispatch(m, image_buffers[c])
           k == connKey[c] IN
       /\ cur' = [cur EXCEPT ![c] = m]
       /\ IF d.exc
          THEN /\ pc' = [pc EXCEPT ![c] = "crashed"]
               /\ replies' = [replies EXCEPT ![c] = <<>>]
               /\ fwd' = [fwd EXCEPT ![c] = <<>>]
               /\ UNCHANGED <<image_buffers, pend>>
          ELSE /\ image_buffers' = [image_buffers EXCEPT ![c] = d.bufs]
               /\ IF d.op # None /\ k \in DOMAIN active_sessions
                  THEN /\ fwd' = [fwd EXCEPT ![c] =
                                    <<[op |-> d.op, sess |-> active_sessions[k], payload |-> d.payload]>>]
                       /\ pend' = [pend EXCEPT ![c] = d.reply]
                       /\ replies' = [replies EXCEPT ![c] = <<>>]
                       /\ pc' = [pc EXCEPT ![c] = "fwd"]
                  ELSE /\ fwd' = [fwd EXCEPT ![c] = <<>>]
                       /\ UNCHANGED pend
                       /\ IF d.reply = NoReply
                          THEN /\ replies' = [replies EXCEPT ![c] = <<>>]
                               /\ UNCHANGED pc
                          ELSE /\ replies' = [replies EXCEPT ![c] = <<d.reply>>]
                               /\ \E out \in AfterReply(c) : pc' = [pc EXCEPT ![c] = out]
    /\ UNCHANGED <<regVars, connKey, dTodo, obsVars, relayVars, sessVars, sockVars, rag, tools, parser>>

\* the hosted-session call returned: the pending reply is sent
ForwardReturned(c) ==
    /\ pc[c] = "fwd"
    /\ pend' = [pend EXCEPT ![c] = NoReply]
    /\ IF pend[c] = NoReply
       THEN /\ pc' = [pc EXCEPT ![c] = "recv"]
            /\ UNCHANGED replies
       ELSE /\ replies' = [replies EXCEPT ![c] = Append(@, pend[c])]
            /\ \E out \in AfterReply(c) : pc' = [pc EXCEPT ![c] = out]
    /\ UNCHANGED <<regVars, connKey, dTodo, image_buffers, cur, fwd, obsVars, relayVars,
                   sessVars, sockVars, rag, tools, parser>>

\* ------------------------------------------------------------------ observers
\* listeners.setdefault(session_id, set()).add(websocket), as the new
\* <<listeners, setObj>>
AddListener(k, o) ==
    IF k \in DOMAIN listeners
    THEN <<listeners, [setObj EXCEPT ![listeners[k]] = @ \cup {o}]>>
    ELSE <<DictSet(listeners, k, o), [setObj EXCEPT ![o] = {o}]>>

\* remove_listener, as the new <<listeners, setObj>>
RemoveListener(k, o) ==
    IF k \notin DOMAIN listeners \/ setObj[DictGet(listeners, k)] = {}
    THEN <<listeners, setObj>>
    ELSE LET S == setObj[listeners[k]] \ {o} IN
         <<IF S = {} THEN DictDel(listeners, k) ELSE listeners,
           [setObj EXCEPT ![listeners[k]] = S]>>

\* websocket_events starts: an unknown key closes the socket and returns, a
\* known one has add_listener call accept()
ObsOpen(o, k) ==
    /\ opc[o] = "idle"
    /\ obsKey' = [obsKey EXCEPT ![o] = k]
    /\ IF k \notin DOMAIN active_sessions
       THEN /\ closed' = closed \cup {o}
            /\ opc' = [opc EXCEPT ![o] = "done"]
       ELSE /\ opc' = [opc EXCEPT ![o] = "o_accept"]
            /\ UNCHANGED closed
    /\ UNCHANGED <<regVars, connVars, msgVars, regOrder, relayVars, sessVars, evLog, gone, rag, tools, parser>>

\* accept returned: the observer is registered and awaits receive_text
ObsRegister(o) ==
    /\ opc[o] = "o_accept"
    /\ listeners' = AddListener(obsKey[o], o)[1]
    /\ setObj' = AddListener(obsKey[o], o)[2]
    /\ regOrder' = Append(regOrder, o)
    /\ opc' = [opc EXCEPT ![o] = "o_recv"]
    /\ UNCHANGED <<active_sessions, session_contexts, websockets, connVars, msgVars, obsKey,
                   relayVars, sessVars, sockVars, rag, tools, parser>>

\* receive_text raises WebSocketDisconnect (the client went away, or the
\* server closed the socket): remove_listener
ObsDisconnect(o) ==
    /\ opc[o] = "o_recv"
    /\ o \in gone \cup closed
    /\ listeners' = RemoveListener(obsKey[o], o)[1]
    /\ setObj' = RemoveListener(obsKey[o], o)[2]
    /\ opc' = [opc EXCEPT ![o] = "done"]
    /\ UNCHANGED <<active_sessions, session_contexts, websockets, connVars, msgVars, obsKey,
                   regOrder, relayVars, sessVars, sockVars, rag, tools, parser>>

\* ------------------------------------------------------------------ relay
KnownTypes ==
    {"agent_start", "agent_end", "handoff", "tool_start", "tool_end", "audio",
     "audio_interrupted", "audio_end", "history_updated", "history_added",
     "guardrail_tripped", "error", "input_audio_timeout_triggered"}
allowed_raw_types == {"transcript_delta"}

Event(n, type, sub) == [n |-> n, type |-> type, sub |-> sub]

\* a _serialize_event without the allow-list: every raw event gets a payload
SerializeEventPassingRaw(e) ==
    IF e.type \in KnownTypes THEN [kind |-> "payload", type |-> e.type]
    ELSE IF e.type = "raw_model_event" THEN [kind |-> "payload", type |-> e.sub]
    ELSE [kind |-> "raise", type |-> None]

\* a _serialize_event whose last branch returns None instead of raising
SerializeEventIgnoringUnknown(e) ==
    IF e.type \in KnownTypes THEN [kind |-> "payload", type |-> e.type]
    ELSE IF e.type = "raw_model_event"
    THEN IF e.sub \notin allowed_raw_types THEN [kind |-> "none", type |-> None]
         ELSE [kind |-> "payload", type |-> e.sub]
    ELSE [kind |-> "none", type |-> None]

\* _serialize_event: the payload's type, "none" for a dropped raw event,
\* "raise" where assert_never raises
SerializeEvent(e) ==
    IF e.type \in KnownTypes THEN [kind |-> "payload", type |-> e.type]
    ELSE IF e.type = "raw_model_event"
    THEN IF e.sub \notin allowed_raw_types THEN [kind |-> "none", type |-> None]
         ELSE [kind |-> "payload", type |-> e.sub]
    ELSE [kind |-> "raise", type |-> None]

\* the event types the hosted session emits in the relay specification
EmitTypes == {<<"audio", None>>, <<"raw_model_event", "other">>}

\* the event types of the drain specification: a known tag, a raw event
\* outside and inside the allow-list, a tag _serialize_event does not know
DrainTypes == EmitTypes \cup {<<"raw_model_event", "transcript_delta">>, <<"unknown_tag", None>>}

\* the hosted session of a connect emits its next event
Emit(s, t) ==
    /\ s \in entered
    /\ ctxExits[s] = 0
    /\ emitted[s] < MaxEvents
    /\ emitted' = [emitted EXCEPT ![s] = @ + 1]
    /\ queue' = [queue EXCEPT ![s] = Append(@, Event(emitted[s] + 1, t[1], t[2]))]
    /\ UNCHANGED <<regVars, connVars, msgVars, obsVars, relayVars, entered, ctxExits, sockVars, rag, tools, parser>>

CanSend(s) == s \notin gone \cup closed

\* the task created by connect starts: it looks up session and socket
\* (KeyError is caught and logged) and awaits the first event
RelayStart(r) ==
    /\ rpc[r] = "start"
    /\ IF connKey[r] \in DOMAIN active_sessions /\ connKey[r] \in DOMAIN websockets
       THEN /\ rSess' = [rSess EXCEPT ![r] = active_sessions[connKey[r]]]
            /\ rSock' = [rSock EXCEPT ![r] = websockets[connKey[r]]]
            /\ rpc' = [rpc EXCEPT ![r] = "iter"]
       ELSE /\ rpc' = [rpc EXCEPT ![r] = "dead"]
            /\ UNCHANGED <<rSess, rSock>>
    /\ UNCHANGED <<regVars, connVars, msgVars, obsVars, rEv, rSet, rTodo, rCur, rOk,
                   sessVars, sockVars, rag, tools, parser>>

\* the session's iterator yields the oldest queued event to this task: it is
\* serialized and sent to the owning socket
RelayTake(r) ==
    /\ rpc[r] = "iter"
    /\ queue[rSess[r]] # <<>>
    /\ LET e == Head(queue[rSess[r]])
           p == SerializeEvent(e) IN
       /\ queue' = [queue EXCEPT ![rSess[r]] = Tail(@)]
       /\ CASE p.kind = "none" -> UNCHANGED <<rpc, rEv, rOk, evLog>>
            [] p.kind = "raise" -> /\ rpc' = [rpc EXCEPT ![r] = "dead"]
                                   /\ UNCHANGED <<rEv, rOk, evLog>>
            [] OTHER ->
                 LET event_data == [s |-> rSess[r], n |-> e.n, type |-> p.type] IN
                 /\ rEv' = [rEv EXCEPT ![r] = event_data]
                 /\ rOk' = [rOk EXCEPT ![r] = CanSend(rSock[r])]
                 /\ evLog' = IF CanSend(rSock[r])
                             THEN [evLog EXCEPT ![rSock[r]] = Append(@, event_data)]
                             ELSE evLog
                 /\ rpc' = [rpc EXCEPT ![r] = "send_owner"]
    /\ UNCHANGED <<regVars, connVars, msgVars, obsVars, rSess, rSock, rSet, rTodo, rCur,
                   entered, ctxExits, emitted, gone, closed, rag, tools, parser>>

\* the loop over list(listeners) goes on with the observers in todo: the
\* event is sent to the first of them, or the next event is awaited
FanOut(r, todo) ==
    IF todo = <<>>
    THEN /\ rpc' = [rpc EXCEPT ![r] = "iter"]
         /\ rTodo' = [rTodo EXCEPT ![r] = <<>>]
         /\ UNCHANGED <<rCur, rOk, evLog>>
    ELSE /\ rCur' = [rCur EXCEPT ![r] = Head(todo)]
         /\ rTodo' = [rTodo EXCEPT ![r] = Tail(todo)]
         /\ rOk' = [rOk EXCEPT ![r] = CanSend(Head(todo))]
         /\ evLog' = IF CanSend(Head(todo))
                     THEN [evLog EXCEPT ![Head(todo)] = Append(@, rEv[r])]
                     ELSE evLog
         /\ rpc' = [rpc EXCEPT ![r] = "send_obs"]

\* a list(listeners) that repeats an observer
SnapshotRepeating(S) == [1..Cardinality(S) -> S]

\* list(listeners) of the fan-out, in the set's iteration order
Snapshot(S) == ListOf(S)

\* a relay task that removes its session from the registry when the send to
\* the owning socket fails
RelayOwnerSentCleaning(r) ==
    /\ rpc[r] = "send_owner"
    /\ IF ~rOk[r]
       THEN /\ rpc' = [rpc EXCEPT ![r] = "dead"]
            /\ active_sessions' = DictDel(active_sessions, connKey[r])
            /\ UNCHANGED <<rSet, rTodo, rCur, rOk, evLog>>
       ELSE /\ rSet' = [rSet EXCEPT ![r] = DictGet(listeners, connKey[r])]
            /\ UNCHANGED active_sessions
            /\ \E q \in Snapshot(IF connKey[r] \in DOMAIN listeners
                                 THEN setObj[listeners[connKey[r]]] ELSE {}) :
                  FanOut(r, q)
    /\ UNCHANGED <<session_contexts, websockets, listeners, setObj, connVars, msgVars, obsVars,
                   rSess, rSock, rEv, sessVars, gone, closed, rag, tools, parser>>

\* the send to the owning socket returned (an exception ends the task):
\* listeners = self.listeners.get(session_id, set()) and the loop begins
RelayOwnerSent(r) ==
    /\ rpc[r] = "send_owner"
    /\ IF ~rOk[r]
       THEN /\ rpc' = [rpc EXCEPT ![r] = "dead"]
            /\ UNCHANGED <<rSet, rTodo, rCur, rOk, evLog>>
       ELSE /\ rSet' = [rSet EXCEPT ![r] = DictGet(listeners, connKey[r])]
            /\ \E q \in Snapshot(IF connKey[r] \in DOMAIN listeners
                                 THEN setObj[listeners[connKey[r]]] ELSE {}) :
                  FanOut(r, q)
    /\ UNCHANGED <<regVars, connVars, msgVars, obsVars, rSess, rSock, rEv, sessVars,
                   gone, closed, rag, tools, parser>>

\* the send to an observer returned: on an exception the observer is closed,
\* otherwise the loop goes on
RelayObsSent(r) ==
    /\ rpc[r] = "send_obs"
    /\ IF ~rOk[r]
       THEN /\ closed' = closed \cup {rCur[r]}
            /\ rpc' = [rpc EXCEPT ![r] = "close_obs"]
            /\ UNCHANGED <<rTodo, rCur, rOk, evLog>>
       ELSE /\ FanOut(r, rTodo[r])
            /\ UNCHANGED closed
    /\ UNCHANGED <<regVars, connVars, msgVars, obsVars, rSess, rSock, rEv, rSet, sessVars,
                   gone, rag, tools, parser>>

\* a relay task that leaves the loop over the observers after a failed one
RelayObsClosedBreaking(r) ==
    /\ rpc[r] = "close_obs"
    /\ setObj' = IF rSet[r] = None THEN setObj
                 ELSE [setObj EXCEPT ![rSet[r]] = @ \ {rCur[r]}]
    /\ FanOut(r, <<>>)
    /\ UNCHANGED <<active_sessions, session_contexts, websockets, listeners, connVars, msgVars,
                   obsVars, rSess, rSock, rEv, rSet, sessVars, gone, closed, rag, tools, parser>>

\* the close of a failed observer returned: listeners.discard(ws) on the set
\* object the task holds, and the loop goes on
RelayObsClosed(r) ==
    /\ rpc[r] = "close_obs"
    /\ setObj' = IF rSet[r] = None THEN setObj
                 ELSE [setObj EXCEPT ![rSet[r]] = @ \ {rCur[r]}]
    /\ FanOut(r, rTodo[r])
    /\ UNCHANGED <<active_sessions, session_contexts, websockets, listeners, connVars, msgVars,
                   obsVars, rSess, rSock, rEv, rSet, sessVars, gone, closed, rag, tools, parser>>

\* ------------------------------------------------------------------ RAG accessor
\* The callers of get_index interleave at its calls into the document
\* reader, the vector store and the index library; no lock guards _index.
server == <<regVars, connVars, msgVars, obsVars, relayVars, sessVars, sockVars>>

\* the handles that calls have returned so far
Returned == {ret[t] : t \in Callers} \ {NoIndex}

\* get_index is called: a present _index is returned; otherwise the build
\* body is entered, the documents are loaded and split (which may raise) and
\* collection_exists is asked
GetIndex(t) ==
    /\ cpc[t] = "idle"
    /\ calls < MaxCalls
    /\ calls' = calls + 1
    /\ cseen' = [cseen EXCEPT ![t] = Returned]
    /\ IF index # NoIndex
       THEN /\ ret' = [ret EXCEPT ![t] = index]
            /\ cbuilt' = [cbuilt EXCEPT ![t] = 0]
            /\ UNCHANGED <<builds, cpc>>
       ELSE /\ builds' = builds + 1
            /\ cbuilt' = [cbuilt EXCEPT ![t] = builds + 1]
            /\ ret' = [ret EXCEPT ![t] = NoIndex]
            /\ \E raised \in BOOLEAN :
                  cpc' = [cpc EXCEPT ![t] = IF raised THEN "idle" ELSE "exists"]
    /\ UNCHANGED <<server, tools, parser, index, collection, creates>>

\* collection_exists returned
CollectionExists(t) ==
    /\ cpc[t] = "exists"
    /\ cpc' = [cpc EXCEPT ![t] = IF collection THEN "build" ELSE "create"]
    /\ UNCHANGED <<server, tools, parser, index, collection, builds, creates, calls, cseen, cbuilt, ret>>

\* a create_collection that creates the collection anew when it exists
CreateCollectionAnew(t) ==
    /\ cpc[t] = "create"
    /\ collection' = TRUE
    /\ creates' = creates + 1
    /\ cpc' = [cpc EXCEPT ![t] = "build"]
    /\ UNCHANGED <<server, tools, parser, index, builds, calls, cseen, cbuilt, ret>>

\* create_collection: the store refuses to create a collection that exists
CreateCollection(t) ==
    /\ cpc[t] = "create"
    /\ IF collection
       THEN /\ cpc' = [cpc EXCEPT ![t] = "idle"]
            /\ UNCHANGED <<collection, creates>>
       ELSE /\ collection' = TRUE
            /\ creates' = creates + 1
            /\ cpc' = [cpc EXCEPT ![t] = "build"]
    /\ UNCHANGED <<server, tools, parser, index, builds, calls, cseen, cbuilt, ret>>

\* VectorStoreIndex(nodes, ...) returned a new handle (or raised): it is
\* stored in _index and returned
BuildIndex(t) ==
    /\ cpc[t] = "build"
    /\ cpc' = [cpc EXCEPT ![t] = "idle"]
    /\ \E raised \in BOOLEAN :
          IF raised
          THEN UNCHANGED <<index, ret>>
          ELSE /\ index' = cbuilt[t]
               /\ ret' = [ret EXCEPT ![t] = cbuilt[t]]
    /\ UNCHANGED <<server, tools, parser, collection, builds, creates, calls, cseen, cbuilt>>

NextRag ==
    \/ \E t \in Callers : GetIndex(t)
    \/ \E t \in Callers : CollectionExists(t)
    \/ \E t \in Callers : CreateCollection(t)
    \/ \E t \in Callers : BuildIndex(t)

\* the vector store may or may not hold the collection when the process starts
InitStore == InitServer /\ InitRag /\ InitTools /\ InitParser /\ collection \in BOOLEAN

SpecRag == InitStore /\ [][NextRag]_vars

\* ------------------------------------------------------------------ tools
\* The clock and date tools of the agent.  A call reads TIMEZONE and the
\* system clock and returns at once.
MaxClock == 30               \* hours the system clock runs

\* UTC offset, in hours, of the time zones the tz database knows here
UtcOffset == [z \in {"UTC", "Atlantic/Canary", "Asia/Tokyo"} |->
                 CASE z = "Asia/Tokyo" -> 9 [] OTHER -> 0]

\* keys that are not normalized relative paths
MalformedKeys == {"", "/etc/localtime"}

\* values of the TIMEZONE environment variable
Zones == DOMAIN UtcOffset \cup MalformedKeys \cup {"Mars/Olympus"}

\* zoneinfo.ZoneInfo(key): the zone, ValueError for a malformed key,
\* ZoneInfoNotFoundError for a key without tz data
ZoneInfo(key) ==
    IF key \in MalformedKeys THEN [kind |-> "ValueError", key |-> key, offset |-> 0]
    ELSE IF key \in DOMAIN UtcOffset THEN [kind |-> "zone", key |-> key, offset |-> UtcOffset[key]]
    ELSE [kind |-> "ZoneInfoNotFoundError", key |-> key, offset |-> 0]

\* try: tz = ZoneInfo(TIMEZONE) except ZoneInfoNotFoundError: tz = ZoneInfo("UTC")
ZoneOrUtc(key) ==
    IF ZoneInfo(key).kind = "ZoneInfoNotFoundError" THEN ZoneInfo("UTC") ELSE ZoneInfo(key)

\* strftime of a two-digit field: tens and units
TwoDigits(n) == <<n \div 10, n % 10>>

\* datetime.now(tz): hour of the day and day of the month of the local time
LocalHour(tz) == (clockH + tz.offset) % 24
LocalDay(tz) == (clockH + tz.offset) \div 24 + 1
Month == 1

Raised(name, tz) == [tool |-> name, raised |-> tz.kind, atH |-> clockH, atM |-> clockM]

\* the system clock advances by half an hour
Tick ==
    /\ clockH < MaxClock
    /\ IF clockM = 0 THEN clockM' = 30 /\ clockH' = clockH
       ELSE clockM' = 0 /\ clockH' = clockH + 1
    /\ UNCHANGED <<server, rag, parser, TIMEZONE, tool>>

GetCurrentTime ==
    /\ LET tz == ZoneOrUtc(TIMEZONE) IN
       tool' = IF tz.kind # "zone" THEN Raised("get_current_time", tz)
               ELSE [tool |-> "get_current_time", raised |-> None,
                     current_hour |-> TwoDigits(LocalHour(tz)),
                     current_minutes |-> TwoDigits(clockM),
                     timezone |-> TIMEZONE, atH |-> clockH, atM |-> clockM]
    /\ UNCHANGED <<server, rag, parser, TIMEZONE, clockH, clockM>>

GetCurrentDate ==
    /\ LET tz == ZoneOrUtc(TIMEZONE) IN
       tool' = IF tz.kind # "zone" THEN Raised("get_current_date", tz)
               ELSE [tool |-> "get_current_date", raised |-> None,
                     current_day |-> TwoDigits(LocalDay(tz)),
                     current_month |-> TwoDigits(Month),
                     timezone |-> TIMEZONE, atH |-> clockH, atM |-> clockM]
    /\ UNCHANGED <<server, rag, parser, TIMEZONE, clockH, clockM>>

NextTools == Tick \/ GetCurrentTime \/ GetCurrentDate

\* TIMEZONE is whatever the environment holds
InitZones ==
    /\ InitServer /\ InitRag /\ InitParser /\ collection = FALSE
    /\ TIMEZONE \in Zones
    /\ clockH = 0
    /\ clockM = 0
    /\ tool = [tool |-> None]

SpecTools == InitZones /\ [][NextTools]_vars

\* ------------------------------------------------------------------ paragraph splitter
\* ParagraphSplitter as get_index configures it: separator (?:\r?\n){2,},
\* strip_empty left at its default.  A text is a sequence of characters;
\* build_nodes_from_splits makes one node per split, in order.
MaxLen == 5                  \* characters of a document

Chars == {"a", "b", " ", "\n", "\r"}
Whitespace == {" ", "\n", "\r"}      \* the characters of Chars that str.strip() removes
DocTexts == UNION {[1..n -> Chars] : n \in 0..MaxLen}
strip_empty == TRUE

\* the length of the match of \r?\n at position i of t, 0 for no match
LineBreak(t, i) ==
    IF i + 1 <= Len(t) /\ t[i] = "\r" /\ t[i + 1] = "\n" THEN 2
    ELSE IF i <= Len(t) /\ t[i] = "\n" THEN 1
    ELSE 0

RECURSIVE Breaks(_, _)
\* the greedy repetition of \r?\n from position i: characters matched, and
\* how many line breaks they are
Breaks(t, i) ==
    IF LineBreak(t, i) = 0 THEN [len |-> 0, n |-> 0]
    ELSE LET rest == Breaks(t, i + LineBreak(t, i)) IN
         [len |-> LineBreak(t, i) + rest.len, n |-> 1 + rest.n]

\* the length of the match of the separator at position i, 0 for no match
SeparatorAt(t, i) == IF Breaks(t, i).n >= 2 THEN Breaks(t, i).len ELSE 0

RECURSIVE ReSplit(_, _, _)
\* re.split(separator, t) for the part of t from position from on, the scan
\* for the next match standing at position i
ReSplit(t, from, i) ==
    IF i > Len(t) THEN <<SubSeq(t, from, Len(t))>>
    ELSE IF SeparatorAt(t, i) > 0
         THEN <<SubSeq(t, from, i - 1)>>
                  \o ReSplit(t, i + SeparatorAt(t, i), i + SeparatorAt(t, i))
         ELSE ReSplit(t, from, i + 1)

\* a strip that leaves the text as it is
StripNothing(p) == p

RECURSIVE Strip(_)
\* p.strip()
Strip(p) ==
    IF p = <<>> THEN p
    ELSE IF Head(p) \in Whitespace THEN Strip(Tail(p))
    ELSE IF p[Len(p)] \in Whitespace THEN Strip(SubSeq(p, 1, Len(p) - 1))
    ELSE p

RECURSIVE Cleaned(_)
\* [p.strip() for p in paragraphs if not self.strip_empty or p.strip()]
Cleaned(paragraphs) ==
    IF paragraphs = <<>> THEN <<>>
    ELSE (IF ~strip_empty \/ Strip(Head(paragraphs)) # <<>>
          THEN <<Strip(Head(paragraphs))>> ELSE <<>>) \o Cleaned(Tail(paragraphs))

RECURSIVE ParseNodes(_)
\* _parse_nodes: the cleaned paragraphs of every document, document by document
ParseNodes(ds) ==
    IF ds = <<>> THEN <<>>
    ELSE Cleaned(ReSplit(Head(ds), 1, 1)) \o ParseNodes(Tail(ds))

\* splitter.get_nodes_from_documents(docs)
GetNodes ==
    /\ nodes = None
    /\ nodes' = ParseNodes(docs)
    /\ UNCHANGED <<server, rag, tools, docs>>

\* a document that is given to the splitter next to the one under test
OtherDoc == <<"b", "\n", "\n", "a">>

\* the documents are whatever the directory holds
InitDocs ==
    /\ InitServer /\ InitRag /\ InitTools /\ collection = FALSE
    /\ docs \in {<<t>> : t \in DocTexts} \cup {<<t, OtherDoc>> : t \in DocTexts}
                \cup {<<OtherDoc, t>> : t \in DocTexts}
    /\ nodes = None

SpecSplitter == InitDocs /\ [][GetNodes]_vars

\* ------------------------------------------------------------------ specifications
\* The registry: connects and disconnects of two connections (the first on
\* key k1, the second on either key), two observers, the start of the relay tasks.
Next ==
    \/ ConnectAccept("c1", "k1")
    \/ \E k \in Keys : ConnectAccept("c2", k)
    \/ \E c \in Conns : ConnectRecord(c)
    \/ \E c \in Conns : ConnectEntered(c)
    \/ \E s \in Sockets : ClientGone(s)
    \/ \E c \in Conns : DisconnectBegin(c)
    \/ \E c \in Conns : DisconnectExited(c)
    \/ \E c \in Conns : DisconnectClose(c)
    \/ \E o \in Observers, k \in Keys : ObsOpen(o, k)
    \/ \E o \in Observers : ObsRegister(o)
    \/ \E o \in Observers : ObsDisconnect(o)
    \/ \E r \in Conns : RelayStart(r)

Spec == Init /\ [][Next]_vars

\* The relay tasks of two connections and one observer whose client stays.
NextRelay ==
    \/ ConnectAccept("c1", "k1")
    \/ \E k \in Keys : ConnectAccept("c2", k)
    \/ \E c \in Conns : ConnectRecord(c)
    \/ \E c \in Conns : ConnectEntered(c)
    \/ \E k \in Keys : ObsOpen("o1", k)
    \/ ObsRegister("o1")
    \/ \E s \in Conns, t \in EmitTypes : Emit(s, t)
    \/ \E r \in Conns : RelayStart(r)
    \/ \E r \in Conns : RelayTake(r)
    \/ \E r \in Conns : RelayOwnerSent(r)
    \/ \E r \in Conns : RelayObsSent(r)

SpecRelay == Init /\ [][NextRelay]_vars

\* The event loop runs every task that can run: a relay task that is ready
\* to start, to take an event or to resume after a send is scheduled.
FairRelay ==
    \A r \in Conns : /\ WF_vars(RelayStart(r))
                      /\ WF_vars(RelayTake(r))
                      /\ WF_vars(RelayOwnerSent(r))
                      /\ WF_vars(RelayObsSent(r))

SpecRelayFair == Init /\ [][NextRelay]_vars /\ FairRelay

\* The fan-out of one connection's relay task to two observers that come and go.
NextFan ==
    \/ ConnectAccept("c1", "k1")
    \/ ConnectRecord("c1")
    \/ ConnectEntered("c1")
    \/ \E o \in Observers, k \in Keys : ObsOpen(o, k)
    \/ \E o \in Observers : ObsRegister(o)
    \/ \E o \in Observers : ClientGone(o)
    \/ \E o \in Observers : ObsDisconnect(o)
    \/ \E t \in EmitTypes : Emit("c1", t)
    \/ RelayStart("c1")
    \/ RelayTake("c1")
    \/ RelayOwnerSent("c1")
    \/ RelayObsSent("c1")
    \/ RelayObsClosed("c1")

SpecFan == Init /\ [][NextFan]_vars

\* The receive loop of one connection under every message type; the other
\* connection only connects and disconnects.
NextIngress ==
    \/ ConnectAccept("c1", "k1")
    \/ \E k \in Keys : ConnectAccept("c2", k)
    \/ \E c \in Conns : ConnectRecord(c)
    \/ \E c \in Conns : ConnectEntered(c)
    \/ \E c \in Conns : ClientGone(c)
    \/ \E c \in Conns : DisconnectBegin(c)
    \/ \E c \in Conns : DisconnectExited(c)
    \/ \E m \in Messages : ChunkRoom("c1", m, MaxChunks) /\ Receive("c1", m)
    \/ ForwardReturned("c1")

SpecIngress == Init /\ [][NextIngress]_vars

\* the messages of the forwarding specification: one image id, one chunk value
ForwardMessages == {m \in Messages : m.id \in {None, "a"} /\ m.data # <<"y">>}

\* The receive loop of one connection and the forward operations it calls,
\* with uploads of a single image; the other connection only connects and
\* disconnects.
NextForward ==
    \/ ConnectAccept("c1", "k1")
    \/ \E k \in Keys : ConnectAccept("c2", k)
    \/ \E c \in Conns : ConnectRecord(c)
    \/ \E c \in Conns : ConnectEntered(c)
    \/ \E c \in Conns : ClientGone(c)
    \/ \E c \in Conns : DisconnectBegin(c)
    \/ \E c \in Conns : DisconnectExited(c)
    \/ \E m \in ForwardMessages : ChunkRoom("c1", m, MaxChunks) /\ Receive("c1", m)
    \/ ForwardReturned("c1")

SpecForward == Init /\ [][NextForward]_vars

\* the messages of a chunked upload
UploadMessages == {m \in Messages : m.type \in {"image_start", "image_chunk", "image_end"}}

\* Chunked uploads of two images on one connection while a second
\* connection on the same key connects and disconnects.
NextUpload ==
    \/ \E c \in Conns : ConnectAccept(c, "k1")
    \/ \E c \in Conns : ConnectRecord(c)
    \/ \E c \in Conns : ConnectEntered(c)
    \/ \E c \in Conns : ClientGone(c)
    \/ \E c \in Conns : DisconnectBegin(c)
    \/ \E c \in Conns : DisconnectExited(c)
    \/ \E m \in UploadMessages : ChunkRoom("c1", m, MaxChunks) /\ Receive("c1", m)
    \/ ForwardReturned("c1")

SpecUpload == Init /\ [][NextUpload]_vars

\* the upload messages of the second connection: one image id, one chunk value
SecondUploadMessages == {m \in UploadMessages : m.id = "a" /\ m.data # <<"y">>}

\* Two connections, each with its own handler and its own buffers, uploading
\* at the same time.
NextUploads ==
    \/ ConnectAccept("c1", "k1")
    \/ ConnectAccept("c2", "k2")
    \/ \E c \in Conns : ConnectRecord(c)
    \/ \E c \in Conns : ConnectEntered(c)
    \/ \E m \in UploadMessages : ChunkRoom("c1", m, MaxChunks) /\ Receive("c1", m)
    \/ \E m \in SecondUploadMessages : ChunkRoom("c2", m, MaxChunks) /\ Receive("c2", m)
    \/ \E c \in Conns : ForwardReturned(c)

SpecUploads == Init /\ [][NextUploads]_vars

MaxUpload == 20              \* chunks of one long upload

\* the messages of a long upload: one image id that is started, one that
\* never is, one chunk value
LongUploadMessages ==
    {m \in UploadMessages : m.data # <<"y">> /\ (m.id = "b" => m.type = "image_chunk")}

\* One connection uploading one image in many chunks.
NextLongUpload ==
    \/ ConnectAccept("c1", "k1")
    \/ ConnectRecord("c1")
    \/ ConnectEntered("c1")
    \/ ClientGone("c1")
    \/ DisconnectBegin("c1")
    \/ DisconnectExited("c1")
    \/ \E m \in LongUploadMessages : ChunkRoom("c1", m, MaxUpload) /\ Receive("c1", m)
    \/ ForwardReturned("c1")

SpecLongUpload == Init /\ [][NextLongUpload]_vars

\* One connection and one observer; the session emits every kind of event,
\* the owner's client may go away and the handler may disconnect.
NextDrain ==
    \/ ConnectAccept("c1", "k1")
    \/ ConnectRecord("c1")
    \/ ConnectEntered("c1")
    \/ ObsOpen("o1", "k1")
    \/ ObsRegister("o1")
    \/ ObsDisconnect("o1")
    \/ ClientGone("c1")
    \/ DisconnectBegin("c1")
    \/ DisconnectExited("c1")
    \/ DisconnectClose("c1")
    \/ \E t \in DrainTypes : Emit("c1", t)
    \/ RelayStart("c1")
    \/ RelayTake("c1")
    \/ RelayOwnerSent("c1")
    \/ RelayObsSent("c1")
    \/ RelayObsClosed("c1")

SpecDrain == Init /\ [][NextDrain]_vars

\* ------------------------------------------------------------------ properties
Range(q) == {q[i] : i \in 1..Len(q)}

KeyAbsent(k) ==
    /\ k \notin DOMAIN active_sessions
    /\ k \notin DOMAIN session_contexts
    /\ k \notin DOMAIN websockets
    /\ k \notin DOMAIN listeners

\* the step in which the disconnect called by connection c returns
DisconnectReturns(c) == pc[c] \in {"recv", "wsd", "d_exit", "d_close"} /\ pc'[c] = "done"

\* C1: when disconnect(key) returns, key is in none of the four registry
\* maps and close() has been called on every observer registered for key,
\* whatever ran while disconnect was suspended.
C1_DisconnectRemovesAndCloses ==
    [][\A c \in Conns :
          DisconnectReturns(c) =>
             /\ KeyAbsent(connKey[c])'
             /\ connKey[c] \in DOMAIN listeners => setObj[listeners[connKey[c]]] \subseteq closed']_vars

\* C4: no context is exited twice, and a context that was entered has been
\* exited exactly once when the handler of its connection has ended.
C4_ContextExitedExactlyOnce ==
    \A c \in Conns :
        /\ ctxExits[c] <= 1
        /\ (c \in entered /\ pc[c] \in {"done", "crashed"}) => ctxExits[c] = 1

\* C5: a message received on a connection is forwarded only to the hosted
\* session that the connect of that connection started.
C5_ForwardedToOwnSession ==
    \A c \in Conns : \A i \in 1..Len(fwd[c]) : fwd[c][i].sess = c

\* C8: add_listener and remove_listener on a key without a registered
\* session leave the registry unchanged.
C8_ListenerNoOpOnUnknownKey ==
    [][\A o \in Observers :
          ( /\ obsKey[o] \notin DOMAIN active_sessions
            /\ \/ opc[o] = "o_accept" /\ opc'[o] = "o_recv"
               \/ opc[o] = "o_recv" /\ opc'[o] = "done" )
          => UNCHANGED regVars]_vars

\* C9: every socket receives the relayed events of a session in the order
\* the session emitted them, none of them twice.
C9_EmissionOrder ==
    \A s \in Sockets : \A i, j \in 1..Len(evLog[s]) :
        (i < j /\ evLog[s][i].s = evLog[s][j].s) => evLog[s][i].n < evLog[s][j].n

RegisteredBefore(a, b) ==
    \E i, j \in 1..Len(regOrder) : i < j /\ regOrder[i] = a /\ regOrder[j] = b

InFanOut(r) == rpc[r] \in {"send_obs", "close_obs"}

\* C10 as stated: within the fan-out of one event, no observer is sent the
\* event while an observer registered before it still waits for its send.
C10_RegistrationOrder ==
    \A r \in Conns :
        InFanOut(r) => \A a \in Range(rTodo[r]) : ~RegisteredBefore(a, rCur[r])

\* C10 as amended: within the fan-out of one event the event has first been
\* handed to the owning socket, and the observers of the snapshot are sent
\* it one after the other, each at most once; their order is the iteration
\* order of the set.
C10_FanOutOncePerObserver ==
    \A r \in Conns :
        InFanOut(r) =>
            /\ rEv[r] \in Range(evLog[rSock[r]])
            /\ rCur[r] \notin Range(rTodo[r])
            /\ \A i, j \in 1..Len(rTodo[r]) : i # j => rTodo[r][i] # rTodo[r][j]

\* two observers are registered and the one registered later is sent an
\* event first
C10_Witness ==
    \E r \in Conns :
        /\ rpc[r] = "send_obs"
        /\ rTodo[r] # <<>>
        /\ RegisteredBefore(rTodo[r][1], rCur[r])
        /\ rEv[r] \in Range(evLog[rCur[r]])

HandledTypes == {"audio", "text", "image", "commit_audio", "image_start", "image_chunk",
                 "image_end", "interrupt"}
SilentTypes == {"audio", "commit_audio", "interrupt"}
AnsweredTypes == {"text", "image", "image_start", "image_end"}
ReplyTypes == {"client_info", "error"}

\* the handler is back at receive_text after the message cur[c]
Served(c) == pc[c] = "recv" /\ cur[c] # NoMsg

UnknownImageEnd(c, m) == m.type = "image_end" /\ m.id \notin DOMAIN image_buffers[c]

\* C3: when the handler, its client still there, receives an image_end whose
\* id has no buffer on the connection, it sends one error reply, forwards
\* nothing, leaves every image buffer as it was and is back at receive_text.
C3_UnknownImageEnd ==
    [][\A c \in Conns : \A m \in Messages :
          (UnknownImageEnd(c, m) /\ c \notin gone /\ Receive(c, m)) =>
              /\ replies'[c] = <<Err("Unknown image id for image_end.")>>
              /\ fwd'[c] = <<>>
              /\ image_buffers' = image_buffers
              /\ pc'[c] = "recv"]_vars

\* an image_end for an id without a buffer has been answered while another
\* image of the connection is being uploaded
C3_Witness ==
    /\ Served("c1")
    /\ cur["c1"].type = "image_end"
    /\ cur["c1"].id \notin DOMAIN image_buffers["c1"]
    /\ replies["c1"] = <<Err("Unknown image id for image_end.")>>
    /\ \E i \in DOMAIN image_buffers["c1"] : image_buffers["c1"][i].chunks # <<>>

\* C6: a call of get_index that began after some call had returned a handle
\* returns that handle and runs none of the build steps.
C6_GetIndexIdempotent ==
    \A t \in Callers : \A h \in cseen[t] :
        /\ cbuilt[t] = 0
        /\ (cpc[t] = "idle" /\ ret[t] # NoIndex) => ret[t] = h

\* C7: the build body of get_index runs at most once in the process.
C7_AtMostOneBuild == builds <= 1

\* C11: whatever a registered observer is sent is a relayed event that the
\* current owning socket of the observer's key has been sent before it.
C11_ObserverMirrorsOwner ==
    [][\A o \in Observers :
          (Len(evLog'[o]) > Len(evLog[o]) /\ obsKey[o] \in DOMAIN websockets) =>
              evLog'[o][Len(evLog'[o])] \in Range(evLog[websockets[obsKey[o]]])]_vars

\* the relay task r takes the next event of its session in this step
Takes(r) ==
    /\ rpc[r] = "iter"
    /\ queue[rSess[r]] # <<>>
    /\ queue'[rSess[r]] = Tail(queue[rSess[r]])

NextEvent(r) == Head(queue[rSess[r]])

\* C12: a raw event outside the allow-list is sent to no socket and the relay
\* awaits the next event; a raw transcript_delta is sent to the owner with
\* type transcript_delta and becomes the event of the fan-out; no socket is
\* ever sent a payload of a dropped subtype, nor the same event twice.
C12_RawEventAllowList ==
    /\ [](\A s \in Sockets : \A i, j \in 1..Len(evLog[s]) :
            /\ evLog[s][i].type \in KnownTypes \cup allowed_raw_types
            /\ (evLog[s][i].n = evLog[s][j].n /\ evLog[s][i].s = evLog[s][j].s) => i = j)
    /\ [][\A r \in Conns :
            (Takes(r) /\ NextEvent(r).type = "raw_model_event") =>
                IF NextEvent(r).sub \in allowed_raw_types
                THEN /\ rEv'[r] = [s |-> rSess[r], n |-> NextEvent(r).n, type |-> "transcript_delta"]
                     /\ CanSend(rSock[r]) => evLog'[rSock[r]] = Append(evLog[rSock[r]], rEv'[r])
                     /\ rpc'[r] = "send_owner"
                ELSE evLog' = evLog /\ rpc'[r] = "iter" /\ rEv' = rEv]_vars

\* the first event was a dropped raw event, the second a transcript_delta
\* that reached the owner and the observer
C12_Witness ==
    /\ evLog["c1"] = <<[s |-> "c1", n |-> 2, type |-> "transcript_delta"]>>
    /\ evLog["o1"] = evLog["c1"]

UnknownTag(e) == e.type \notin KnownTypes \cup {"raw_model_event"}

\* C13: when the relay takes an event whose tag _serialize_event does not
\* know, nothing is sent for it and the relay task ends instead of awaiting
\* the next event; the events that follow it stay unrelayed.
C13_UnknownTagFailsFast ==
    [][\A r \in Conns :
          /\ (Takes(r) /\ UnknownTag(NextEvent(r))) =>
                 (evLog' = evLog /\ rEv' = rEv /\ rpc'[r] = "dead")
          /\ (rpc[r] = "dead" /\ rSess[r] # None) =>
                 (queue'[rSess[r]] = queue[rSess[r]] \/ Len(queue'[rSess[r]]) > Len(queue[rSess[r]]))]_vars

\* the relay ended on an unknown tag with the session registered and the
\* owner's client there; the event emitted after it is left in the stream
C13_Witness ==
    /\ rpc["c1"] = "dead"
    /\ "c1" \notin gone
    /\ "k1" \in DOMAIN active_sessions
    /\ emitted["c1"] = 2
    /\ Len(queue["c1"]) = 1
    /\ evLog["c1"] = <<>>

\* C14: the step in which a relay task ends on an exception changes no
\* registry map and sends nothing to any socket; an ended relay task stays
\* ended and takes no further event.
C14_RelayEndsSilently ==
    [][\A r \in Conns :
          /\ (rpc[r] # "dead" /\ rpc'[r] = "dead") => (UNCHANGED regVars /\ evLog' = evLog)
          /\ rpc[r] = "dead" => (rpc'[r] = "dead" /\ rEv'[r] = rEv[r])]_vars

\* the send to the owning socket failed: the relay has ended, the session is
\* still listed and an emitted event waits in its stream
C14_Witness ==
    /\ rpc["c1"] = "dead"
    /\ "c1" \in gone
    /\ rEv["c1"] # NoEvent
    /\ "k1" \in DOMAIN active_sessions /\ "k1" \in DOMAIN websockets
    /\ queue["c1"] # <<>>

\* a text without text, an image without data_url, an image_end whose
\* buffer holds no data
Malformed(c, m) ==
    \/ m.type = "text" /\ m.text = ""
    \/ m.type = "image" /\ m.data = <<>>
    \/ /\ m.type = "image_end"
       /\ m.id \in DOMAIN image_buffers[c]
       /\ Join(image_buffers[c][m.id].chunks) = <<>>

\* C15: when the handler, its client still there, receives a malformed
\* message, it sends exactly one reply, of type error, makes no call to the
\* hosted session and is back at receive_text.
C15_MalformedInput ==
    [][\A c \in Conns : \A m \in Messages :
          (Malformed(c, m) /\ c \notin gone /\ Receive(c, m)) =>
              /\ Len(replies'[c]) = 1
              /\ replies'[c][1].type = "error"
              /\ fwd'[c] = <<>>
              /\ pc'[c] = "recv"]_vars

\* an image_end for a started image without chunks has been answered
C15_Witness ==
    /\ Served("c1")
    /\ cur["c1"].type = "image_end"
    /\ replies["c1"] = <<Err("Empty image.")>>
    /\ fwd["c1"] = <<>>
    /\ "k1" \in DOMAIN active_sessions

\* C16: no operation of the registry fails on a missing key: no disconnect
\* ends in a KeyError at one of its del statements and no relay task ends in
\* a KeyError at its lookups.
C16_NoMissingKey ==
    \A c \in Conns : pc[c] # "crashed" /\ rpc[c] # "dead"

\* the operation of the hosted session that each forwarding message type
\* ends in
SessionOp(type) ==
    CASE type = "audio" -> "send_audio"
      [] type = "commit_audio" -> "send_event"
      [] type = "interrupt" -> "interrupt"
      [] OTHER -> "send_message"

Forwarding(c, m) ==
    /\ m.type \in {"audio", "text", "image", "commit_audio", "image_end", "interrupt"}
    /\ ~Dispatch(m, image_buffers[c]).exc
    /\ Dispatch(m, image_buffers[c]).op # None

\* C17: a forward for a key with an active session makes exactly one call,
\* of the matching operation, on the session listed under the key; a forward
\* for a key without one makes no call, raises nothing and leaves the
\* registry as it is.
C17_ForwardRouting ==
    [][\A c \in Conns : \A m \in Messages :
          (Forwarding(c, m) /\ c \notin gone /\ Receive(c, m)) =>
              IF connKey[c] \in DOMAIN active_sessions
              THEN /\ fwd'[c] = <<[op |-> SessionOp(m.type),
                                   sess |-> active_sessions[connKey[c]],
                                   payload |-> Dispatch(m, image_buffers[c]).payload]>>
                   /\ pc'[c] = "fwd"
                   /\ UNCHANGED regVars
              ELSE /\ fwd'[c] = <<>>
                   /\ pc'[c] = "recv"
                   /\ UNCHANGED regVars]_vars

\* an interrupt was received while the key had no session: nothing was called
C17_Witness ==
    /\ Served("c1")
    /\ cur["c1"].type = "interrupt"
    /\ fwd["c1"] = <<>>
    /\ "k1" \notin DOMAIN active_sessions
    /\ "c1" \notin gone

\* C18: with a TIMEZONE that names no time zone, a call of the clock tool or
\* of the date tool does not raise and returns the hour and minutes, or the
\* day and month, of the UTC time at the call.
C18_InvalidZoneFallsBack ==
    (tool.tool # None /\ TIMEZONE \notin DOMAIN UtcOffset) =>
        /\ tool.raised = None
        /\ tool.tool = "get_current_time" =>
               /\ tool.current_hour = TwoDigits(tool.atH % 24)
               /\ tool.current_minutes = TwoDigits(tool.atM)
        /\ tool.tool = "get_current_date" =>
               /\ tool.current_day = TwoDigits(tool.atH \div 24 + 1)
               /\ tool.current_month = TwoDigits(Month)

\* the session of connection s has emitted an event numbered n that
\* serializes to a payload and waits in its stream
Pending(s, n) ==
    \E i \in 1..Len(queue[s]) :
        queue[s][i].n = n /\ SerializeEvent(queue[s][i]).kind = "payload"

\* the owning socket of session s has been sent the event numbered n
SentToOwner(s, n) ==
    \E i \in 1..Len(evLog[s]) : evLog[s][i].s = s /\ evLog[s][i].n = n

\* C19: with no failing send and no disconnect, every event a session emits
\* that serializes to a payload is eventually sent to the session's owning
\* socket.
C19_EveryEventRelayed ==
    \A s \in Conns : \A n \in 1..MaxEvents : Pending(s, n) ~> SentToOwner(s, n)

\* C20: once the handler of a connection has ended, by a disconnect or by an
\* exception, the connection's key is in no registry map and the lifecycle
\* context of its session has been exited.
C20_SessionDestroyedAtEnd ==
    \A c \in Conns :
        pc[c] \in {"done", "crashed"} => (KeyAbsent(connKey[c]) /\ ctxExits[c] >= 1)

\* the data buffered for image id i on connection c, concatenated
Buffered(c, i) == Join(image_buffers[c][i].chunks)

Started(c, m) == m.id \in DOMAIN image_buffers[c]

\* C21 as stated: an image_end for a started id forwards one user message
\* with the concatenated chunks and consumes the buffer.
C21_ImageEndForwards ==
    [][\A c \in Conns : \A m \in Messages :
          (m.type = "image_end" /\ Started(c, m) /\ Receive(c, m)) =>
              /\ Len(fwd'[c]) = 1
              /\ fwd'[c][1].payload.image_url = Buffered(c, m.id)
              /\ m.id \notin DOMAIN image_buffers'[c]]_vars

\* C21 as amended: a chunk for a started id is appended to its buffer; an
\* image_end for a started id consumes the buffer and, when the buffer
\* holds data, hands one user message with the concatenation of the chunks
\* in arrival order to the session listed under the key, to none when no
\* session is listed; a buffer without data forwards nothing.
C21_UploadForwardsJoined ==
    [][\A c \in Conns : \A m \in Messages :
          /\ (m.type = "image_chunk" /\ Started(c, m) /\ Receive(c, m)) =>
                 image_buffers'[c][m.id].chunks = Append(image_buffers[c][m.id].chunks, m.data)
          /\ (m.type = "image_end" /\ Started(c, m) /\ Receive(c, m)) =>
                 /\ m.id \notin DOMAIN image_buffers'[c]
                 /\ fwd'[c] =
                       IF Buffered(c, m.id) # <<>> /\ connKey[c] \in DOMAIN active_sessions
                       THEN <<[op |-> "send_message", sess |-> active_sessions[connKey[c]],
                               payload |-> [image_url |-> Buffered(c, m.id),
                                            text |-> image_buffers[c][m.id].text]]>>
                       ELSE <<>>]_vars

\* two different chunks were uploaded and forwarded in the order of arrival,
\* and the id is unknown again
C21_Witness ==
    /\ cur["c1"].type = "image_end"
    /\ Len(fwd["c1"]) = 1
    /\ fwd["c1"][1].payload.image_url = <<"x", "y">>
    /\ cur["c1"].id \notin DOMAIN image_buffers["c1"]

\* C22: a chunk for a started id is appended and is acknowledged, with the
\* number of chunks buffered, exactly when that number has become a
\* multiple of ChunkAckEvery; a chunk for an id that is not started changes
\* no buffer, forwards nothing and gets no reply.
C22_ChunkAckEveryTenth ==
    [][\A c \in Conns : \A m \in Messages :
          (m.type = "image_chunk" /\ Receive(c, m)) =>
              /\ fwd'[c] = <<>>
              /\ IF Started(c, m)
                 THEN LET n == Len(image_buffers[c][m.id].chunks) + 1 IN
                      /\ image_buffers'[c][m.id].chunks = Append(image_buffers[c][m.id].chunks, m.data)
                      /\ replies'[c] = IF n % ChunkAckEvery = 0
                                       THEN <<Ack("image_chunk_ack", m.id, n)>> ELSE <<>>
                 ELSE image_buffers' = image_buffers /\ replies'[c] = <<>>]_vars

\* the second acknowledgment of an upload: twice ChunkAckEvery chunks
C22_Witness ==
    /\ cur["c1"].type = "image_chunk"
    /\ replies["c1"] = <<Ack("image_chunk_ack", "a", 2 * ChunkAckEvery)>>
    /\ Len(image_buffers["c1"]["a"].chunks) = 2 * ChunkAckEvery

\* C23: image_start for an id replaces that id's buffer on the connection by
\* an empty one and forwards nothing, so chunks buffered before it are
\* dropped; the buffers of the connection's other ids and the buffers of
\* every other connection stay as they are.
C23_ImageStartReplaces ==
    [][\A c \in Conns : \A m \in Messages :
          (m.type = "image_start" /\ Receive(c, m)) =>
              /\ DOMAIN image_buffers'[c] = DOMAIN image_buffers[c] \cup {m.id}
              /\ image_buffers'[c][m.id].chunks = <<>>
              /\ fwd'[c] = <<>>
              /\ \A i \in DOMAIN image_buffers[c] \ {m.id} :
                     image_buffers'[c][i] = image_buffers[c][i]
              /\ \A d \in Conns \ {c} : image_buffers'[d] = image_buffers[d]]_vars

\* id "a" restarted on c1 while c1's id "b" and c2's id "a" hold chunks
C23_Witness ==
    /\ cur["c1"] = Msg("image_start", "a", "", <<>>)
    /\ replies["c1"] = <<Ack("image_start_ack", "a", 0)>>
    /\ image_buffers["c1"]["a"].chunks = <<>>
    /\ "b" \in DOMAIN image_buffers["c1"] /\ Len(image_buffers["c1"]["b"].chunks) = MaxChunks
    /\ "a" \in DOMAIN image_buffers["c2"] /\ Len(image_buffers["c2"]["a"].chunks) = MaxChunks

\* C24: when the send to an observer raises, the relay task closes that
\* observer and discards it from the observer set, goes on with the same
\* event for the observers still to be served (the next of them is sent the
\* event), and never ends: the events after it are relayed as before.
C24_FailingObserverIsolated ==
    /\ [](rpc["c1"] # "dead")
    /\ [][\A r \in Conns :
            /\ (rpc[r] = "send_obs" /\ ~rOk[r] /\ RelayObsSent(r)) =>
                   /\ rCur[r] \in closed'
                   /\ rpc'[r] = "close_obs"
                   /\ rTodo'[r] = rTodo[r] /\ rEv'[r] = rEv[r]
            /\ (rpc[r] = "close_obs" /\ RelayObsClosed(r)) =>
                   /\ rSet[r] # None /\ rCur[r] \notin setObj'[rSet[r]]
                   /\ setObj'[rSet[r]] = setObj[rSet[r]] \ {rCur[r]}
                   /\ rEv'[r] = rEv[r]
                   /\ IF rTodo[r] = <<>>
                      THEN rpc'[r] = "iter"
                      ELSE /\ rpc'[r] = "send_obs" /\ rCur'[r] = Head(rTodo[r])
                           /\ CanSend(Head(rTodo[r])) =>
                                  evLog'[Head(rTodo[r])] = Append(evLog[Head(rTodo[r])], rEv[r])]_vars

\* o1 failed and was closed and discarded; o2 has been sent every event the
\* owner has, the second of them after o1 failed
C24_Witness ==
    /\ "o1" \in closed /\ "o1" \in gone
    /\ "k1" \in DOMAIN listeners /\ setObj[listeners["k1"]] = {"o2"}
    /\ Len(evLog["c1"]) = 2
    /\ evLog["o2"] = evLog["c1"]
    /\ Len(evLog["o1"]) < 2
    /\ rpc["c1"] = "iter"

\* the reply is the acknowledgment that a user message was enqueued
Enqueued(reply) ==
    reply.type = "client_info" /\ reply.info \in {"text_enqueued", "image_enqueued"}

\* C25: a connection that has been sent text_enqueued or image_enqueued for
\* the message it last received has had that message passed to a hosted
\* session.
C25_AckOnlyWhenForwarded ==
    \A c \in Conns :
        (\E i \in 1..Len(replies[c]) : Enqueued(replies[c][i])) =>
            /\ Len(fwd[c]) = 1
            /\ fwd[c][1].op = "send_message"

\* C26: whenever the tasks are suspended, active_sessions and
\* session_contexts have the same keys and every key with an active session
\* has a socket recorded under it.
C26_RegistryConsistent ==
    /\ DOMAIN active_sessions = DOMAIN session_contexts
    /\ DOMAIN active_sessions \subseteq DOMAIN websockets

\* C27: every key of the observer map has an active session.
C27_NoOrphanObservers == DOMAIN listeners \subseteq DOMAIN active_sessions

\* a line break: LF or CR LF
IsLineBreak(s) == s \in {<<"\n">>, <<"\r", "\n">>}

\* the text holds a separator: two line breaks in a row
HasSeparator(s) ==
    \E i \in 1..Len(s) : \E j \in {i, i + 1} : \E k \in {j + 1, j + 2} :
        k <= Len(s) /\ IsLineBreak(SubSeq(s, i, j)) /\ IsLineBreak(SubSeq(s, j + 1, k))

\* position i of text t lies in a paragraph: at or between two characters
\* that are not whitespace and have no separator between them
InParagraph(t, i) ==
    \E l \in 1..i, r \in i..Len(t) :
        t[l] \notin Whitespace /\ t[r] \notin Whitespace /\ ~HasSeparator(SubSeq(t, l, r))

\* the paragraphs of t, each as <<first, last>> position
Paragraphs(t) ==
    {par \in (1..Len(t)) \X (1..Len(t)) :
        /\ par[1] <= par[2]
        /\ \A i \in par[1]..par[2] : InParagraph(t, i)
        /\ par[1] = 1 \/ ~InParagraph(t, par[1] - 1)
        /\ par[2] = Len(t) \/ ~InParagraph(t, par[2] + 1)}

\* the place of paragraph par among the paragraphs of t
Rank(t, par) == Cardinality({q \in Paragraphs(t) : q[1] < par[1]}) + 1

RECURSIVE Before(_, _)
\* the number of paragraphs in the documents before the d-th
Before(ds, d) == IF d = 1 THEN 0 ELSE Before(ds, d - 1) + Cardinality(Paragraphs(ds[d - 1]))

\* C28: the nodes returned for a list of documents are, document after
\* document and in the order of the text, the paragraphs of each document:
\* the stretches that begin and end with a character that is not whitespace,
\* hold no separator, and are parted from one another by a separator; pieces
\* of whitespace only give no node.
C28_ParagraphChunks ==
    nodes # None =>
        /\ Len(nodes) = Before(docs, Len(docs) + 1)
        /\ \A d \in 1..Len(docs) : \A par \in Paragraphs(docs[d]) :
               nodes[Before(docs, d) + Rank(docs[d], par)] = SubSeq(docs[d], par[1], par[2])

\* a document with a whitespace-only first piece and a padded second one,
\* followed by a document of two paragraphs
C28_Witness ==
    /\ docs = << <<" ", "\n", "\n", "a", " ">>, OtherDoc >>
    /\ nodes # None
    /\ nodes = << <<"a">>, <<"b">>, <<"a">> >>

\* C29: a build asks for the creation of the collection exactly when
\* collection_exists answered that it is absent; the collection is created
\* only while it does not exist, a collection that exists is neither created
\* again nor removed, and a build that goes on to the index construction
\* finds the collection present.
C29_CollectionCreatedIfAbsent ==
    /\ [](\A t \in Callers : cpc[t] = "build" => collection)
    /\ [][/\ collection => (collection' /\ creates' = creates)
          /\ creates' # creates => (~collection /\ collection' /\ creates' = creates + 1)
          /\ \A t \in Callers :
               /\ (cpc[t] = "exists" /\ cpc'[t] # "exists") =>
                      cpc'[t] = IF collection THEN "build" ELSE "create"
               /\ (cpc[t] = "create" /\ ~collection /\ CreateCollection(t)) =>
                      (collection' /\ cpc'[t] = "build")]_vars

\* the first build found no collection and has created it
C29_Witness ==
    /\ cpc["t1"] = "build" /\ cbuilt["t1"] = 1
    /\ creates = 1
    /\ collection

\* C30: the timezone field of a result of the clock tool or of the date tool
\* names the zone in which the returned hour, or day, was computed.
C30_TimezoneFieldNamesZoneUsed ==
    (tool.tool # None /\ tool.raised = None) =>
        /\ tool.timezone \in DOMAIN UtcOffset
        /\ tool.tool = "get_current_time" =>
               tool.current_hour = TwoDigits((tool.atH + UtcOffset[tool.timezone]) % 24)
        /\ tool.tool = "get_current_date" =>
               tool.current_day = TwoDigits((tool.atH + UtcOffset[tool.timezone]) \div 24 + 1)

====
